---- MODULE Spec2Model ----
(***************************************************************************)
(* State-machine model of XMLHttpRequestOverride                           *)
(* (src/interceptors/XMLHttpRequest/XMLHttpRequestOverride.ts): one        *)
(* intercepted instance, the resolver outcomes of its sends, the real      *)
(* clients created on the passthrough path, and the events fired.          *)
(*                                                                         *)
(* The continuation of send (the .then callback) is split at its trigger   *)
(* calls: a trigger runs the caller's handlers synchronously, and a        *)
(* handler may call open/send/abort on the instance before the             *)
(* continuation goes on.  While pc # "idle" the continuation is on the     *)
(* stack; caller operations are then possible only inside a handler        *)
(* (inHandler), and no other continuation can start.                       *)
(***************************************************************************)
EXTENDS Integers, Sequences, FiniteSets, TLC

VARIABLES
    readyState,       \* this.readyState
    status,           \* this.status
    statusText,       \* this.statusText
    response,         \* this.response (a coerced value)
    responseText,     \* this.responseText
    responseType,     \* this.responseType
    responseHeaders,  \* this._responseHeaders
    data,             \* this.data
    events,           \* this._events, the ordered listener list
    pending,          \* sends whose resolver outcome has not been delivered; each
                      \* with its id, its body, and whether since it was sent
                      \* the caller made any call (touched), abort() took effect
                      \* (aborted) or open was called (superseded)
    pc,               \* position of the continuation on the stack, or "idle"
    cur,              \* the send (and its outcome) the running (or last) task serves
    inHandler,        \* a caller's handler invoked by the last trigger is running
    origs,            \* real clients (originalRequest) in flight
    log,              \* events dispatched since the running (or last) task began
    observed,         \* observer.emit('response', ...) notifications of that task
    nSends,           \* number of send calls so far (the id of the latest send)
    nOps,             \* number of caller operations so far
    slots,            \* the direct-callback slots: this.on<event>, by event name
    requestHeaders,   \* this._requestHeaders
    method,           \* this.method
    url,              \* this.url
    responseURL,      \* this.responseURL
    responseXML       \* this.responseXML

\* What only the caller's calls change, and what only a real client's load changes
callerVars == <<slots, requestHeaders, method, url>>
loadVars == <<responseURL, responseXML>>

vars == <<readyState, status, statusText, response, responseText, responseType,
          responseHeaders, data, events, pending, pc, cur, inHandler, origs,
          log, observed, nSends, nOps, callerVars, loadVars>>

(* ------------------------------ bounds -------------------------------- *)
\* caller operations (open, send, abort, ...) explored on the instance
MaxOps == 3
\* send calls explored on the instance
MaxSends == 2
\* length of the listener list explored in the lifecycle specification
MaxListeners == 1
\* length of the listener list a caller has registered before using the instance
MaxRegistered == 2

(* ----------------------------- constants ------------------------------ *)
UNSENT == 0
OPENED == 1
HEADERS_RECEIVED == 2
LOADING == 3
DONE == 4

\* JavaScript undefined (an absent argument or field) and null
NoValue == "undefined"
Null == "null"

RSC == "readystatechange"
EventNames == {RSC, "loadstart", "progress", "load", "loadend",
               "error", "abort", "timeout"}
\* No direct callback is set
NoSlots == [n \in EventNames |-> Null]

\* createEvent.ts: the event types built as ProgressEvent
progressEvents == {"error", "progress", "loadstart", "loadend", "load",
                   "timeout", "abort"}

(* ------------------------------ values -------------------------------- *)
\* A coerced response value: its JavaScript kind, its text, and a Blob's type.
Str(s) == [kind |-> "string", v |-> s, type |-> ""]
NullValue == [kind |-> "null", v |-> "", type |-> ""]

\* JSON texts, among the bodies explored, that parse to a falsy value
FalsyJson == {"false", "0", "null"}
\* Body texts that are valid JSON
ValidJson == FalsyJson \cup {"{}"}

\* parseJson(textBody): JSON.parse, and a falsy result when the text is unparseable
parseJson(text) ==
    IF text \in ValidJson THEN [kind |-> "json", v |-> text, type |-> ""]
    ELSE NullValue

\* JavaScript truthiness of a coerced response value
Truthy(val) ==
    CASE val.kind = "string" -> val.v # ""
      [] val.kind = "json" -> val.v \notin FalsyJson
      [] val.kind = "blob" -> TRUE
      [] val.kind = "arraybuffer" -> TRUE
      [] OTHER -> FALSE

\* JavaScript truthiness of an optional string (undefined and "" are falsy)
TruthyStr(s) == s # NoValue /\ s # ""

\* bufferFrom(text).length: the bodies explored are ASCII, one byte per character
ByteLength(text) == Len(text)

(* ------------------------------ headers ------------------------------- *)
\* A Headers store is a sequence of <<name, value>> pairs, names normalised.
EmptyHeaders == <<>>

Lower(name) ==
    CASE name = "Content-Type" -> "content-type"
      [] name = "X-Powered-By" -> "x-powered-by"
      [] OTHER -> name

\* objectToHeaders(obj): obj given as its entries, in order
objectToHeaders(obj) == [i \in 1..Len(obj) |-> <<Lower(obj[i][1]), obj[i][2]>>]

\* Headers.get(name): case-insensitive lookup, null when absent
HeadersGet(h, name) ==
    IF \E i \in 1..Len(h) : h[i][1] = Lower(name)
    THEN h[CHOOSE i \in 1..Len(h) :
               /\ h[i][1] = Lower(name)
               /\ \A j \in 1..(i - 1) : h[j][1] # Lower(name)][2]
    ELSE Null

\* Headers.append(name, value) on a request Headers store, a sequence of
\* <<raw name, values>>: a new entry, or one more value for the same name
HeadersAppend(h, name, value) ==
    IF \E i \in 1..Len(h) : Lower(h[i][1]) = Lower(name)
    THEN [i \in 1..Len(h) |->
             IF Lower(h[i][1]) = Lower(name)
             THEN <<h[i][1], Append(h[i][2], value)>> ELSE h[i]]
    ELSE Append(h, <<name, <<value>>>>)

\* window.location.href, against which send resolves a relative url
Location == "http://localhost/"

\* new URL(this.url), or new URL(this.url, window.location.href) when this.url
\* is relative
ResolveURL(u) ==
    CASE u = "" -> Location
      [] u = "/a" -> "http://localhost/a"
      [] u = "/c" -> "http://localhost/c"
      [] OTHER -> u

\* stringToHeaders(wire): the wire strings a real client returns in this model
stringToHeaders(wire) ==
    CASE wire = "x-powered-by: real\r\n" -> << <<"x-powered-by", "real">> >>
      [] OTHER -> EmptyHeaders

\* A variant of getResponseHeader without the readyState guard
getResponseHeader_Unguarded(rs, hdrs, name) == HeadersGet(hdrs, name)

\* getResponseHeader(name), as a function of the instance state
getResponseHeader(rs, hdrs, name) ==
    IF rs < HEADERS_RECEIVED THEN Null ELSE HeadersGet(hdrs, name)

\* headersToString(headers): one "name: value" line per header
headersToString(h) ==
    LET F[i \in 0..Len(h)] ==
            IF i = 0 THEN ""
            ELSE F[i - 1] \o h[i][1] \o ": " \o h[i][2] \o "\r\n"
    IN  F[Len(h)]

\* getAllResponseHeaders(), as a function of the instance state
getAllResponseHeaders(rs, hdrs) ==
    IF rs < HEADERS_RECEIVED THEN "" ELSE headersToString(hdrs)

\* A variant of getResponseBody whose default (text) case yields null
getResponseBody_NullText(body, rtype, rs, hdrs) ==
    LET textBody == IF body = NoValue THEN "" ELSE body
        ct == getResponseHeader(rs, hdrs, "content-type")
    IN  CASE rtype = "json" -> parseJson(textBody)
          [] rtype = "blob" ->
                [kind |-> "blob", v |-> textBody,
                 type |-> IF ct = Null \/ ct = "" THEN "text/plain" ELSE ct]
          [] rtype = "arraybuffer" ->
                [kind |-> "arraybuffer", v |-> textBody, type |-> ""]
          [] OTHER -> NullValue

\* getResponseBody(body), as a function of the instance state
getResponseBody(body, rtype, rs, hdrs) ==
    LET textBody == IF body = NoValue THEN "" ELSE body
        ct == getResponseHeader(rs, hdrs, "content-type")
    IN  CASE rtype = "json" -> parseJson(textBody)
          [] rtype = "blob" ->
                [kind |-> "blob", v |-> textBody,
                 type |-> IF ct = Null \/ ct = "" THEN "text/plain" ELSE ct]
          [] rtype = "arraybuffer" ->
                [kind |-> "arraybuffer", v |-> textBody, type |-> ""]
          [] OTHER -> Str(textBody)

(* ------------------------------ inputs -------------------------------- *)
\* Mock Response Descriptors a resolver returns. status 0 and statusText ""
\* stand for an absent field (both are falsy, and the code reads them with ||);
\* headers <<>> stands for absent or {} (the code builds empty Headers for both).
MockBodies == {NoValue, "", "hello", "false"}
MockResponses ==
    {[status |-> 0, statusText |-> "", headers |-> <<>>, body |-> b] :
        b \in MockBodies}
    \cup
    {[status |-> 404, statusText |-> "Not Found",
      headers |-> << <<"Content-Type", "text/x-mock">> >>, body |-> b] :
        b \in MockBodies}
NoMock == [status |-> 0, statusText |-> "", headers |-> <<>>, body |-> NoValue]

\* What a real client holds when it completes
RealResponses ==
    {[status |-> 200, statusText |-> "OK", body |-> "real",
      headers |-> "x-powered-by: real\r\n",
      responseURL |-> "http://host/final", responseXML |-> Null],
     [status |-> 500, statusText |-> "Internal Server Error", body |-> "",
      headers |-> "",
      responseURL |-> "http://host/final", responseXML |-> "document"]}
NoReal == [status |-> 0, statusText |-> "", body |-> "", headers |-> "",
           responseURL |-> "", responseXML |-> Null]

\* Values the caller assigns to responseType
ResponseTypes == {"text", "json", "blob", "arraybuffer"}
\* Arguments of send
SendData == {NoValue, "payload"}
\* The argument of send explored in the lifecycle specification
SpecSendData == {NoValue}
\* Arguments of open: <<method, url>>, and <<url, undefined>> for open(url)
OpenArgs == {<<"GET", "/a">>, <<"POST", "http://host/b">>, <<"/c", NoValue>>}
\* The arguments of open explored in the lifecycle specification
SpecOpenArgs == {<<"GET", "/a">>}
\* Arguments of setRequestHeader: <<name, value>>
HeaderArgs == {<<"X-Test", "1">>}
\* The slots the caller stores a callback in
CallbackSlots == {RSC, "abort", "error"}
\* Listener lists the caller has built with addEventListener: up to
\* MaxRegistered entries
RegisteredEntries ==
    {[name |-> RSC, listener |-> "f"], [name |-> RSC, listener |-> "g"],
     [name |-> "abort", listener |-> "f"]}
RegisteredLists ==
    UNION {[1..n -> RegisteredEntries] : n \in 0..MaxRegistered}
\* Slots the caller has set: none, or a callback in each of CallbackSlots
RegisteredSlots ==
    {NoSlots, [n \in EventNames |-> IF n \in CallbackSlots THEN "cb" ELSE Null]}
\* Handlers the caller has registered for the completion of a passed-through
\* send: listener lists of up to MaxListeners entries, and slots that are
\* all empty or hold a callback for load and readystatechange
LoadEntries ==
    {[name |-> "load", listener |-> "f"], [name |-> RSC, listener |-> "g"]}
LoadLists == UNION {[1..n -> LoadEntries] : n \in 0..MaxListeners}
LoadSlots ==
    {NoSlots, [n \in EventNames |-> IF n \in {"load", RSC} THEN "cb" ELSE Null]}
\* The mock response explored in the specification of the request descriptor
RequestMocks ==
    {[status |-> 404, statusText |-> "Not Found",
      headers |-> << <<"Content-Type", "text/x-mock">> >>, body |-> "hello"]}
\* Header names the caller asks getResponseHeader for
HeaderNames == {"content-type", "Content-Type", "x-powered-by", "x-other"}
\* The listener function and the event names the caller registers
SpecListeners == {"f"}
SpecEvents == {RSC, "loadstart", "error"}

(* --------------------------- event dispatch --------------------------- *)
\* The handlers registered on the instance: its slots and its listener list
Registered == [slots |-> slots, events |-> events]

\* trigger's loop: the listeners of list evs registered for event name ev, in order
Listening(evs, ev) ==
    LET F[i \in 0..Len(evs)] ==
            IF i = 0 THEN <<>>
            ELSE IF evs[i].name = ev THEN Append(F[i - 1], evs[i].listener)
                 ELSE F[i - 1]
    IN  F[Len(evs)]

\* A variant of the dispatch that calls the listeners before the slot
Targets_ListenersFirst(reg, ev) ==
    Listening(reg.events, ev)
        \o (IF reg.slots[ev] # Null THEN <<reg.slots[ev]>> ELSE <<>>)

\* The handlers a dispatch of event name ev invokes, in order: the callback in
\* the slot on<ev> when there is one, then the listeners
Targets(reg, ev) ==
    (IF reg.slots[ev] # Null THEN <<reg.slots[ev]>> ELSE <<>>)
        \o Listening(reg.events, ev)

\* createEvent(target, type, init): the event object the handlers receive
createEvent(type, loaded, total) ==
    IF type \in progressEvents
    THEN [cls |-> "ProgressEvent", loaded |-> loaded, total |-> total]
    ELSE [cls |-> "Event", loaded |-> 0, total |-> 0]

\* One dispatch: who fired it (src: the instance "xhr" or a real client "orig"),
\* for which send (by, 0 for a caller's call), the event, the readyState the
\* handlers see on the firing object, and the listeners invoked.
Dispatch(src, by, ev, rs, loaded, total, reg) ==
    [src |-> src, by |-> by, ev |-> ev, rs |-> rs,
     event |-> createEvent(ev, loaded, total), to |-> Targets(reg, ev)]

\* this.trigger(eventName, options) appended to the log lg
trigger(lg, by, ev, rs, loaded, total, reg) ==
    Append(lg, Dispatch("xhr", by, ev, rs, loaded, total, reg))

\* setReadyState: whether the call changes readyState
ReadyStateChanges(nextState, rs) == nextState # rs

\* A variant of setReadyState that fires readystatechange for UNSENT too
ReadyStateFires_AlsoUnsent(nextState, rs) == ReadyStateChanges(nextState, rs)

\* setReadyState: whether the call fires readystatechange
ReadyStateFires(nextState, rs) ==
    ReadyStateChanges(nextState, rs) /\ nextState # UNSENT

\* setReadyState(nextState) from readyState rs with log lg
setReadyState(nextState, rs, lg, by, reg) ==
    [rs |-> IF ReadyStateChanges(nextState, rs) THEN nextState ELSE rs,
     log |-> IF ReadyStateFires(nextState, rs)
             THEN trigger(lg, by, RSC, nextState, 0, 0, reg)
             ELSE lg,
     fired |-> ReadyStateFires(nextState, rs)]

\* propagateCallbacks stores the instance's abort method, not its onabort
\* callback, in the real client's onabort slot
AbortMethod == "XMLHttpRequestOverride.abort"

\* propagateCallbacks(request): the slots of the real client afterwards
propagateCallbacks(sl) ==
    [n \in EventNames |-> IF n = "abort" THEN AbortMethod ELSE sl[n]]

\* propagateListeners(request): the listeners of the real client afterwards
propagateListeners(evs) == evs

\* The handlers of a real client created now
Forwarded == [slots |-> propagateCallbacks(slots),
              events |-> propagateListeners(events)]

\* The caller's handlers among those a dispatch invokes
CallerTargets(reg, ev) ==
    SelectSeq(Targets(reg, ev), LAMBDA h : h # AbortMethod)

\* A caller's handler runs after a dispatch that invoked at least one of them
HandlerRuns(fired, ev, reg) == fired /\ CallerTargets(reg, ev) # <<>>

(* ------------------------------- state -------------------------------- *)
\* isoRequest of a send that was never made
NoRequest == [url |-> "", method |-> "", body |-> "", headers |-> <<>>]

NoCur == [id |-> 0, kind |-> "none", mock |-> NoMock, real |-> NoReal,
          term |-> "none", rs0 |-> UNSENT, touched |-> FALSE,
          aborted |-> FALSE, superseded |-> FALSE, req |-> NoRequest,
          aliased |-> FALSE]

\* constructor: every field but the listener list and the slots
Constructed ==
    /\ readyState = UNSENT
    /\ status = 200
    /\ statusText = "OK"
    /\ response = Str("")
    /\ responseText = ""
    /\ responseType = "text"
    /\ responseHeaders = EmptyHeaders
    /\ data = ""
    /\ pending = {}
    /\ pc = "idle"
    /\ cur = NoCur
    /\ inHandler = FALSE
    /\ origs = {}
    /\ log = <<>>
    /\ observed = <<>>
    /\ nSends = 0
    /\ nOps = 0
    /\ requestHeaders = EmptyHeaders
    /\ method = "GET"
    /\ url = ""
    /\ responseURL = ""
    /\ responseXML = Null

\* constructor
Init ==
    /\ Constructed
    /\ events = <<>>
    /\ slots = NoSlots

\* A constructed instance on which the caller has registered its handlers
\* (addEventListener calls and on<event> assignments) before using it
InitRegistered ==
    /\ Constructed
    /\ events \in RegisteredLists
    /\ slots \in RegisteredSlots

\* A constructed instance on which the caller has registered handlers for
\* load and readystatechange before using it
InitLoad ==
    /\ Constructed
    /\ events \in LoadLists
    /\ slots \in LoadSlots

\* Caller code runs at the top level of a task, or inside a handler.
CallerMayAct == nOps < MaxOps /\ (pc = "idle" \/ inHandler)

\* A call at the top level begins a new task: log, observed and cur start
\* afresh.
\* A call inside a handler adds to the log of the running task.
CallerLog == IF pc = "idle" THEN <<>> ELSE log
CallerObserved == IF pc = "idle" THEN <<>> ELSE observed

\* Every call of the caller marks the sends in flight as touched: the caller
\* has acted on the instance since they were sent.
Touch(sends) == {[x EXCEPT !.touched = TRUE] : x \in sends}
TouchCur == IF pc = "idle" THEN NoCur ELSE [cur EXCEPT !.touched = TRUE]

(* -------------------------- caller operations ------------------------- *)
\* reset() and setRequestHeader as the request descriptors built by earlier
\* sends see them: a descriptor holds the _requestHeaders object of its send
\* (aliased) until reset() gives the instance a new one
Unalias(sends) == {[x EXCEPT !.aliased = FALSE] : x \in sends}
AppendAliased(x, name, value) ==
    IF x.aliased
    THEN [x EXCEPT !.req.headers = HeadersAppend(@, name, value)]
    ELSE x

\* open(method, url): reset(), then setReadyState(OPENED)
Open(m, u) ==
    /\ CallerMayAct
    /\ LET r == setReadyState(UNSENT, readyState, CallerLog, 0, Registered)
           o == setReadyState(OPENED, r.rs, r.log, 0, Registered)
       IN  /\ readyState' = o.rs
           /\ log' = o.log
    /\ status' = 200
    /\ statusText' = "OK"
    /\ data' = ""
    /\ response' = NullValue
    /\ responseText' = Null
    /\ responseHeaders' = EmptyHeaders
    /\ responseXML' = Null
    /\ requestHeaders' = EmptyHeaders
    /\ url' = IF u = NoValue THEN m ELSE u
    /\ method' = IF u = NoValue THEN "GET" ELSE m
    /\ pending' = {[p EXCEPT !.superseded = TRUE] : p \in Unalias(Touch(pending))}
    /\ cur' = [TouchCur EXCEPT !.aliased = FALSE]
    /\ origs' = {[o EXCEPT !.superseded = TRUE] : o \in Unalias(Touch(origs))}
    /\ nOps' = nOps + 1
    /\ observed' = CallerObserved
    /\ UNCHANGED <<slots, responseURL>>
    /\ UNCHANGED <<responseType, events, pc, inHandler, nSends>>

\* A variant of send that starts the lifecycle before it returns
Send_FiresLoadstart(d) ==
    /\ CallerMayAct
    /\ nSends < MaxSends
    /\ data' = IF TruthyStr(d) THEN d ELSE ""
    /\ nSends' = nSends + 1
    /\ pending' = Touch(pending) \cup
                  {[id |-> nSends + 1, body |-> data', touched |-> FALSE,
                    aborted |-> FALSE, superseded |-> FALSE,
                    req |-> [url |-> ResolveURL(url), method |-> method,
                             body |-> data', headers |-> requestHeaders],
                    aliased |-> TRUE]}
    /\ origs' = Touch(origs)
    /\ nOps' = nOps + 1
    /\ observed' = CallerObserved
    /\ log' = trigger(CallerLog, nSends + 1, "loadstart", readyState, 0, 0,
                      Registered)
    /\ cur' = TouchCur
    /\ UNCHANGED <<callerVars, loadVars>>
    /\ UNCHANGED <<readyState, status, statusText, response, responseText,
                   responseType, responseHeaders, events, pc, inHandler>>

\* send(data): store the body, build the request, call the resolver
Send(d) ==
    /\ CallerMayAct
    /\ nSends < MaxSends
    /\ data' = IF TruthyStr(d) THEN d ELSE ""
    /\ nSends' = nSends + 1
    /\ pending' = Touch(pending) \cup
                  {[id |-> nSends + 1, body |-> data', touched |-> FALSE,
                    aborted |-> FALSE, superseded |-> FALSE,
                    req |-> [url |-> ResolveURL(url), method |-> method,
                             body |-> data', headers |-> requestHeaders],
                    aliased |-> TRUE]}
    /\ origs' = Touch(origs)
    /\ nOps' = nOps + 1
    /\ observed' = CallerObserved
    /\ log' = CallerLog
    /\ cur' = TouchCur
    /\ UNCHANGED <<callerVars, loadVars>>
    /\ UNCHANGED <<readyState, status, statusText, response, responseText,
                   responseType, responseHeaders, events, pc, inHandler>>

\* A variant of the guard of abort() that lets it act on a DONE instance
AbortApplies_AlsoDone(rs) == rs > UNSENT

\* abort(): whether the call takes effect
AbortApplies(rs) == rs > UNSENT /\ rs < DONE

\* abort() applied to readyState rs and log lg, on behalf of send by
abort(rs, lg, by, reg) ==
    IF AbortApplies(rs)
    THEN LET r == setReadyState(UNSENT, rs, lg, by, reg)
         IN  [rs |-> r.rs, log |-> trigger(r.log, by, "abort", r.rs, 0, 0, reg),
              fired |-> TRUE]
    ELSE [rs |-> rs, log |-> lg, fired |-> FALSE]

\* abort() called by the caller
Abort ==
    /\ CallerMayAct
    /\ LET a == abort(readyState, CallerLog, 0, Registered)
       IN  /\ readyState' = a.rs
           /\ log' = a.log
           /\ pending' = IF a.fired
                         THEN {[p EXCEPT !.aborted = TRUE] : p \in Touch(pending)}
                         ELSE Touch(pending)
           /\ cur' = IF a.fired /\ pc # "idle"
                     THEN [TouchCur EXCEPT !.aborted = TRUE] ELSE TouchCur
           /\ origs' = IF a.fired
                       THEN {[o EXCEPT !.aborted = TRUE] : o \in Touch(origs)}
                       ELSE Touch(origs)
    /\ nOps' = nOps + 1
    /\ observed' = CallerObserved
    /\ UNCHANGED <<callerVars, loadVars>>
    /\ UNCHANGED <<status, statusText, response, responseText, responseType,
                   responseHeaders, data, events, pc, inHandler, nSends>>

\* xhr.responseType = t
SetResponseType(t) ==
    /\ CallerMayAct
    /\ t # responseType
    /\ responseType' = t
    /\ nOps' = nOps + 1
    /\ observed' = CallerObserved
    /\ log' = CallerLog
    /\ cur' = TouchCur
    /\ pending' = Touch(pending)
    /\ origs' = Touch(origs)
    /\ UNCHANGED <<callerVars, loadVars>>
    /\ UNCHANGED <<readyState, status, statusText, response, responseText,
                   responseHeaders, data, events, pc, inHandler, nSends>>

\* addEventListener(name, listener)
AddEventListener(name, listener) ==
    /\ CallerMayAct
    /\ Len(events) < MaxListeners
    /\ events' = Append(events, [name |-> name, listener |-> listener])
    /\ nOps' = nOps + 1
    /\ observed' = CallerObserved
    /\ log' = CallerLog
    /\ cur' = TouchCur
    /\ pending' = Touch(pending)
    /\ origs' = Touch(origs)
    /\ UNCHANGED <<callerVars, loadVars>>
    /\ UNCHANGED <<readyState, status, statusText, response, responseText,
                   responseType, responseHeaders, data, pc, inHandler, nSends>>

\* removeEventListener: the filter predicate, TRUE for the entries kept
RemoveKeeps(storedEvent, name, listener) ==
    storedEvent.name # name /\ storedEvent.listener # listener

\* Array.prototype.filter with that predicate
FilterEvents(evs, name, listener) ==
    LET F[i \in 0..Len(evs)] ==
            IF i = 0 THEN <<>>
            ELSE IF RemoveKeeps(evs[i], name, listener)
                 THEN Append(F[i - 1], evs[i])
                 ELSE F[i - 1]
    IN  F[Len(evs)]

\* removeEventListener(name, listener)
RemoveEventListener(name, listener) ==
    /\ CallerMayAct
    /\ events' = FilterEvents(events, name, listener)
    /\ nOps' = nOps + 1
    /\ observed' = CallerObserved
    /\ log' = CallerLog
    /\ cur' = TouchCur
    /\ pending' = Touch(pending)
    /\ origs' = Touch(origs)
    /\ UNCHANGED <<callerVars, loadVars>>
    /\ UNCHANGED <<readyState, status, statusText, response, responseText,
                   responseType, responseHeaders, data, pc, inHandler, nSends>>

\* setRequestHeader(name, value)
SetRequestHeader(name, value) ==
    /\ CallerMayAct
    /\ requestHeaders' = HeadersAppend(requestHeaders, name, value)
    /\ pending' = {AppendAliased(x, name, value) : x \in Touch(pending)}
    /\ origs' = {AppendAliased(x, name, value) : x \in Touch(origs)}
    /\ cur' = AppendAliased(TouchCur, name, value)
    /\ nOps' = nOps + 1
    /\ observed' = CallerObserved
    /\ log' = CallerLog
    /\ UNCHANGED <<slots, method, url, loadVars>>
    /\ UNCHANGED <<readyState, status, statusText, response, responseText,
                   responseType, responseHeaders, data, events, pc, inHandler,
                   nSends>>

(* --------------------- the continuation of send ----------------------- *)
\* The .then callback starts when the resolver outcome of a pending send is
\* delivered and no other code is on the stack.
Starts(p, kind, mock) ==
    /\ pc = "idle"
    /\ p \in pending
    /\ pending' = pending \ {p}
    /\ observed' = <<>>
    /\ cur' = [id |-> p.id, kind |-> kind, mock |-> mock, real |-> NoReal,
               term |-> "none", rs0 |-> readyState, touched |-> p.touched,
               aborted |-> p.aborted, superseded |-> p.superseded,
               req |-> p.req, aliased |-> p.aliased]

\* middlewareException: trigger('error'), then abort() in the next step
DeliverException(p) ==
    /\ Starts(p, "fail", NoMock)
    /\ log' = trigger(<<>>, p.id, "error", readyState, 0, 0, Registered)
    /\ inHandler' = HandlerRuns(TRUE, "error", Registered)
    /\ pc' = "f_abort"
    /\ UNCHANGED <<callerVars, loadVars>>
    /\ UNCHANGED <<readyState, status, statusText, response, responseText,
                   responseType, responseHeaders, data, events, origs, nSends,
                   nOps>>

\* ... this.abort(); return
ExceptionAbort ==
    /\ pc = "f_abort"
    /\ LET a == abort(readyState, log, cur.id, Registered)
       IN  /\ readyState' = a.rs
           /\ log' = a.log
    /\ pc' = "idle"
    /\ inHandler' = FALSE
    /\ UNCHANGED <<callerVars, loadVars>>
    /\ UNCHANGED <<status, statusText, response, responseText, responseType,
                   responseHeaders, data, events, pending, cur, origs,
                   observed, nSends, nOps>>

\* mockedResponse: trigger('loadstart')
DeliverMock(p, mock) ==
    /\ Starts(p, "mock", mock)
    /\ log' = trigger(<<>>, p.id, "loadstart", readyState, 0, 0, Registered)
    /\ inHandler' = HandlerRuns(TRUE, "loadstart", Registered)
    /\ pc' = "m_headers"
    /\ UNCHANGED <<callerVars, loadVars>>
    /\ UNCHANGED <<readyState, status, statusText, response, responseText,
                   responseType, responseHeaders, data, events, origs, nSends,
                   nOps>>

\* A variant of the step that announces HEADERS_RECEIVED before it stores the
\* response headers
MockHeaders_AnnouncesFirst ==
    /\ pc = "m_headers"
    /\ status' = IF cur.mock.status # 0 THEN cur.mock.status ELSE 200
    /\ statusText' = IF TruthyStr(cur.mock.statusText)
                     THEN cur.mock.statusText ELSE "OK"
    /\ responseHeaders' = responseHeaders
    /\ LET r == setReadyState(HEADERS_RECEIVED, readyState, log, cur.id, Registered)
       IN  /\ readyState' = r.rs
           /\ log' = r.log
           /\ inHandler' = HandlerRuns(r.fired, RSC, Registered)
    /\ pc' = "m_body"
    /\ UNCHANGED <<callerVars, loadVars>>
    /\ UNCHANGED <<response, responseText, responseType, data, events, pending,
                   cur, origs, observed, nSends, nOps>>

\* status, statusText, _responseHeaders; setReadyState(HEADERS_RECEIVED)
MockHeaders ==
    /\ pc = "m_headers"
    /\ status' = IF cur.mock.status # 0 THEN cur.mock.status ELSE 200
    /\ statusText' = IF TruthyStr(cur.mock.statusText)
                     THEN cur.mock.statusText ELSE "OK"
    /\ responseHeaders' = objectToHeaders(cur.mock.headers)
    /\ LET r == setReadyState(HEADERS_RECEIVED, readyState, log, cur.id, Registered)
       IN  /\ readyState' = r.rs
           /\ log' = r.log
           /\ inHandler' = HandlerRuns(r.fired, RSC, Registered)
    /\ pc' = "m_body"
    /\ UNCHANGED <<callerVars, loadVars>>
    /\ UNCHANGED <<response, responseText, responseType, data, events, pending,
                   cur, origs, observed, nSends, nOps>>

\* A variant of the condition that tests this.response alone
BodyLoads_ResponseOnly(body, resp) == Truthy(resp)

\* if (mockedResponse.body && this.response)
BodyLoads(body, resp) == TruthyStr(body) /\ Truthy(resp)

\* response, responseText; setReadyState(LOADING) when the body loads
MockBody ==
    /\ pc = "m_body"
    /\ response' = getResponseBody(cur.mock.body, responseType, readyState,
                                   responseHeaders)
    /\ responseText' = IF TruthyStr(cur.mock.body) THEN cur.mock.body ELSE ""
    /\ IF BodyLoads(cur.mock.body, response')
       THEN LET r == setReadyState(LOADING, readyState, log, cur.id, Registered)
            IN  /\ readyState' = r.rs
                /\ log' = r.log
                /\ inHandler' = HandlerRuns(r.fired, RSC, Registered)
                /\ pc' = "m_progress"
       ELSE /\ UNCHANGED <<readyState, log>>
            /\ inHandler' = FALSE
            /\ pc' = "m_done"
    /\ UNCHANGED <<callerVars, loadVars>>
    /\ UNCHANGED <<status, statusText, responseType, responseHeaders, data,
                   events, pending, cur, origs, observed, nSends, nOps>>

\* trigger('progress', {loaded, total}) with bufferFrom(mockedResponse.body)
MockProgress ==
    /\ pc = "m_progress"
    /\ log' = trigger(log, cur.id, "progress", readyState,
                      ByteLength(cur.mock.body), ByteLength(cur.mock.body),
                      Registered)
    /\ inHandler' = HandlerRuns(TRUE, "progress", Registered)
    /\ pc' = "m_done"
    /\ UNCHANGED <<callerVars, loadVars>>
    /\ UNCHANGED <<readyState, status, statusText, response, responseText,
                   responseType, responseHeaders, data, events, pending, cur,
                   origs, observed, nSends, nOps>>

\* setReadyState(DONE)
MockDone ==
    /\ pc = "m_done"
    /\ LET r == setReadyState(DONE, readyState, log, cur.id, Registered)
       IN  /\ readyState' = r.rs
           /\ log' = r.log
           /\ inHandler' = HandlerRuns(r.fired, RSC, Registered)
    /\ pc' = "m_load"
    /\ UNCHANGED <<callerVars, loadVars>>
    /\ UNCHANGED <<status, statusText, response, responseText, responseType,
                   responseHeaders, data, events, pending, cur, origs,
                   observed, nSends, nOps>>

\* trigger('load')
MockLoad ==
    /\ pc = "m_load"
    /\ log' = trigger(log, cur.id, "load", readyState, 0, 0, Registered)
    /\ inHandler' = HandlerRuns(TRUE, "load", Registered)
    /\ pc' = "m_loadend"
    /\ UNCHANGED <<callerVars, loadVars>>
    /\ UNCHANGED <<readyState, status, statusText, response, responseText,
                   responseType, responseHeaders, data, events, pending, cur,
                   origs, observed, nSends, nOps>>

\* trigger('loadend')
MockLoadend ==
    /\ pc = "m_loadend"
    /\ log' = trigger(log, cur.id, "loadend", readyState, 0, 0, Registered)
    /\ inHandler' = HandlerRuns(TRUE, "loadend", Registered)
    /\ pc' = "m_emit"
    /\ UNCHANGED <<callerVars, loadVars>>
    /\ UNCHANGED <<readyState, status, statusText, response, responseText,
                   responseType, responseHeaders, data, events, pending, cur,
                   origs, observed, nSends, nOps>>

\* A variant of observer.emit that notifies the Observer twice
emit_Twice(obs, id, request, res) ==
    obs \o << [id |-> id, request |-> request, status |-> res.status,
               statusText |-> res.statusText,
               headers |-> res.headers, body |-> res.body],
              [id |-> id, request |-> request, status |-> res.status,
               statusText |-> res.statusText,
               headers |-> res.headers, body |-> res.body] >>

\* observer.emit('response', isoRequest, res) for send id, added to the
\* notifications obs
emit(obs, id, request, res) ==
    Append(obs, [id |-> id, request |-> request, status |-> res.status,
                 statusText |-> res.statusText,
                 headers |-> res.headers, body |-> res.body])

\* observer.emit('response', isoRequest, {...})
MockEmit ==
    /\ pc = "m_emit"
    /\ observed' = emit(observed, cur.id, cur.req,
                        [status |-> status, statusText |-> statusText,
                         headers |-> objectToHeaders(cur.mock.headers),
                         body |-> cur.mock.body])
    /\ pc' = "idle"
    /\ inHandler' = FALSE
    /\ UNCHANGED <<callerVars, loadVars>>
    /\ UNCHANGED <<readyState, status, statusText, response, responseText,
                   responseType, responseHeaders, data, events, pending, cur,
                   origs, log, nSends, nOps>>

(* ------------------------- the passthrough path ----------------------- *)
\* A real client: the send it serves, how far it got, the listeners forwarded
\* to it by propagateListeners, how it ends, and the response it holds.
\* no mocked response: new pureXMLHttpRequest(), open, addEventListener('load'),
\* propagateCallbacks/Listeners/Headers, send. The real send fires loadstart.
DeliverPassthrough(p) ==
    /\ Starts(p, "pass", NoMock)
    /\ origs' = origs \cup {[id |-> p.id, st |-> "sent",
                             handlers |-> Forwarded, req |-> p.req,
                             aliased |-> p.aliased,
                             touched |-> p.touched, aborted |-> p.aborted,
                             superseded |-> p.superseded]}
    /\ log' = <<Dispatch("orig", p.id, "loadstart", OPENED, 0, 0, Forwarded)>>
    /\ pc' = "idle"
    /\ inHandler' = FALSE
    /\ UNCHANGED <<callerVars, loadVars>>
    /\ UNCHANGED <<readyState, status, statusText, response, responseText,
                   responseType, responseHeaders, data, events, nSends, nOps>>

\* cur for a task of real client o
OrigCur(o, term, real) ==
    [id |-> o.id, kind |-> "real", mock |-> NoMock, real |-> real,
     term |-> term, rs0 |-> readyState, touched |-> o.touched,
     aborted |-> o.aborted, superseded |-> o.superseded, req |-> o.req,
     aliased |-> o.aliased]

\* The real client receives the response headers: its readystatechange (2)
RealHeaders(o) ==
    /\ pc = "idle"
    /\ o \in origs
    /\ observed' = <<>>
    /\ o.st = "sent"
    /\ origs' = (origs \ {o}) \cup {[o EXCEPT !.st = "headers"]}
    /\ log' = <<Dispatch("orig", o.id, RSC, HEADERS_RECEIVED, 0, 0, o.handlers)>>
    /\ cur' = OrigCur(o, "none", NoReal)
    /\ UNCHANGED <<callerVars, loadVars>>
    /\ UNCHANGED <<readyState, status, statusText, response, responseText,
                   responseType, responseHeaders, data, events, pending, pc,
                   inHandler, nSends, nOps>>

\* The real client receives body bytes: its readystatechange (3)
RealLoading(o) ==
    /\ pc = "idle"
    /\ o \in origs
    /\ observed' = <<>>
    /\ o.st = "headers"
    /\ origs' = (origs \ {o}) \cup {[o EXCEPT !.st = "loading"]}
    /\ log' = <<Dispatch("orig", o.id, RSC, LOADING, 0, 0, o.handlers)>>
    /\ cur' = OrigCur(o, "none", NoReal)
    /\ UNCHANGED <<callerVars, loadVars>>
    /\ UNCHANGED <<readyState, status, statusText, response, responseText,
                   responseType, responseHeaders, data, events, pending, pc,
                   inHandler, nSends, nOps>>

\* The real client finishes, with a response (term = "load") or with an
\* error, a timeout or an abort. It sets its readyState to DONE and fires, in
\* one task, readystatechange, then load/error/timeout/abort, then loadend.
RealDone(o, term, real) ==
    /\ pc = "idle"
    /\ o \in origs
    /\ observed' = <<>>
    /\ o.st \in {"sent", "headers", "loading"}
    /\ term = "load" => o.st # "sent"
    /\ term # "load" => real = NoReal
    /\ origs' = (origs \ {o}) \cup {[o EXCEPT !.st = "done"]}
    /\ log' = <<Dispatch("orig", o.id, RSC, DONE, 0, 0, o.handlers)>>
    /\ inHandler' = HandlerRuns(TRUE, RSC, o.handlers)
    /\ cur' = OrigCur(o, term, real)
    /\ pc' = "r_end"
    /\ UNCHANGED <<callerVars, loadVars>>
    /\ UNCHANGED <<readyState, status, statusText, response, responseText,
                   responseType, responseHeaders, data, events, pending, nSends,
                   nOps>>

\* The real client of the running task
Orig == CHOOSE o \in origs : o.id = cur.id

\* The real client fires error, timeout or abort: only the forwarded handlers
\* run (onabort holds the instance's abort method, called on the real client,
\* whose readyState is DONE: it changes nothing).
RealFails ==
    /\ pc = "r_end"
    /\ cur.term # "load"
    /\ log' = Append(log, Dispatch("orig", cur.id, cur.term, DONE, 0, 0,
                                   Orig.handlers))
    /\ inHandler' = HandlerRuns(TRUE, cur.term, Orig.handlers)
    /\ pc' = "r_loadend"
    /\ UNCHANGED <<callerVars, loadVars>>
    /\ UNCHANGED <<readyState, status, statusText, response, responseText,
                   responseType, responseHeaders, data, events, pending, cur,
                   origs, observed, nSends, nOps>>

\* A variant of the load listener that leaves responseText as reset() set it
onOriginalLoad_NoResponseText(real) ==
    [status |-> real.status, statusText |-> real.statusText,
     responseURL |-> real.responseURL, responseType |-> "",
     response |-> Str(real.body), responseText |-> "",
     responseXML |-> real.responseXML]

\* A variant of the real client's load in which the forwarded handlers run
\* before the listener added by send
RealLoad_CallerFirst ==
    /\ pc = "r_end"
    /\ cur.term = "load"
    /\ log' = Append(log, Dispatch("orig", cur.id, "load", DONE, 0, 0,
                                   (CHOOSE o \in origs : o.id = cur.id).handlers))
    /\ inHandler' = HandlerRuns(TRUE, "load",
                                (CHOOSE o \in origs : o.id = cur.id).handlers)
    /\ pc' = "p_headers"
    /\ UNCHANGED <<callerVars, loadVars>>
    /\ UNCHANGED <<readyState, status, statusText, response, responseText,
                   responseType, responseHeaders, data, events, pending, cur,
                   origs, observed, nSends, nOps>>

\* The fields the load listener added by send copies from the real client,
\* whose responseType is the default one and whose response is its text
onOriginalLoad(real) ==
    [status |-> real.status, statusText |-> real.statusText,
     responseURL |-> real.responseURL, responseType |-> "",
     response |-> Str(real.body), responseText |-> real.body,
     responseXML |-> real.responseXML]

\* The real client fires load: the listener added by send copies the response
\* and calls setReadyState(DONE)
RealLoad ==
    /\ pc = "r_end"
    /\ cur.term = "load"
    /\ LET f == onOriginalLoad(cur.real)
       IN  /\ status' = f.status
           /\ statusText' = f.statusText
           /\ responseURL' = f.responseURL
           /\ responseType' = f.responseType
           /\ response' = f.response
           /\ responseText' = f.responseText
           /\ responseXML' = f.responseXML
    /\ LET r == setReadyState(DONE, readyState, log, cur.id, Registered)
       IN  /\ readyState' = r.rs
           /\ log' = r.log
           /\ inHandler' = HandlerRuns(r.fired, RSC, Registered)
    /\ pc' = "p_headers"
    /\ UNCHANGED callerVars
    /\ UNCHANGED <<responseHeaders, data, events, pending, cur, origs,
                   observed, nSends, nOps>>

\* ... _responseHeaders = stringToHeaders(...); observer.emit('response', ...)
PassHeaders ==
    /\ pc = "p_headers"
    /\ responseHeaders' = stringToHeaders(cur.real.headers)
    /\ observed' = emit(observed, cur.id, cur.req,
                        [status |-> cur.real.status,
                         statusText |-> cur.real.statusText,
                         headers |-> responseHeaders',
                         body |-> cur.real.body])
    /\ pc' = "p_load"
    /\ inHandler' = FALSE
    /\ UNCHANGED <<callerVars, loadVars>>
    /\ UNCHANGED <<readyState, status, statusText, response, responseText,
                   responseType, data, events, pending, cur, origs, log,
                   nSends, nOps>>

\* The same load event then reaches the handlers forwarded to the real client
PassLoad ==
    /\ pc = "p_load"
    /\ log' = Append(log, Dispatch("orig", cur.id, "load", DONE, 0, 0,
                                   Orig.handlers))
    /\ inHandler' = HandlerRuns(TRUE, "load", Orig.handlers)
    /\ pc' = "r_loadend"
    /\ UNCHANGED <<callerVars, loadVars>>
    /\ UNCHANGED <<readyState, status, statusText, response, responseText,
                   responseType, responseHeaders, data, events, pending, cur,
                   origs, observed, nSends, nOps>>

\* The real client fires loadend and is dropped
RealLoadend ==
    /\ pc = "r_loadend"
    /\ log' = Append(log, Dispatch("orig", cur.id, "loadend", DONE, 0, 0,
                                   Orig.handlers))
    /\ origs' = origs \ {Orig}
    /\ pc' = "idle"
    /\ inHandler' = FALSE
    /\ UNCHANGED <<callerVars, loadVars>>
    /\ UNCHANGED <<readyState, status, statusText, response, responseText,
                   responseType, responseHeaders, data, events, pending, cur,
                   observed, nSends, nOps>>

(* --------------------------- specification ---------------------------- *)
RealEnds == {"load", "error", "timeout", "abort"}

Next ==
    \/ \E a \in SpecOpenArgs : Open(a[1], a[2])
    \/ \E d \in SpecSendData : Send(d)
    \/ Abort
    \/ \E t \in ResponseTypes : SetResponseType(t)
    \/ \E n \in SpecEvents, l \in SpecListeners : AddEventListener(n, l)
    \/ \E n \in SpecEvents, l \in SpecListeners : RemoveEventListener(n, l)
    \/ \E p \in pending : DeliverException(p)
    \/ ExceptionAbort
    \/ \E p \in pending, m \in MockResponses : DeliverMock(p, m)
    \/ MockHeaders
    \/ MockBody
    \/ MockProgress
    \/ MockDone
    \/ MockLoad
    \/ MockLoadend
    \/ MockEmit
    \/ \E p \in pending : DeliverPassthrough(p)
    \/ \E o \in origs : RealHeaders(o)
    \/ \E o \in origs : RealLoading(o)
    \/ \E o \in origs, t \in RealEnds, r \in RealResponses \cup {NoReal} :
            RealDone(o, t, r)
    \/ RealFails
    \/ RealLoad
    \/ PassHeaders
    \/ PassLoad
    \/ RealLoadend

Spec == Init /\ [][Next]_vars

\* An instance with registered handlers whose sends fail in the resolver or
\* are passed to a real client that ends without a response
NextRegistered ==
    \/ \E a \in SpecOpenArgs : Open(a[1], a[2])
    \/ \E d \in SpecSendData : Send(d)
    \/ Abort
    \/ \E p \in pending : DeliverException(p)
    \/ ExceptionAbort
    \/ \E p \in pending : DeliverPassthrough(p)
    \/ \E o \in origs, t \in RealEnds \ {"load"} : RealDone(o, t, NoReal)
    \/ RealFails
    \/ RealLoadend

SpecRegistered == InitRegistered /\ [][NextRegistered]_vars

\* An instance without handlers whose caller opens it with several methods and
\* urls, sets request headers and sends bodies
NextRequest ==
    \/ \E a \in OpenArgs : Open(a[1], a[2])
    \/ \E d \in SendData : Send(d)
    \/ Abort
    \/ \E h \in HeaderArgs : SetRequestHeader(h[1], h[2])
    \/ \E p \in pending : DeliverException(p)
    \/ ExceptionAbort
    \/ \E p \in pending, m \in RequestMocks : DeliverMock(p, m)
    \/ MockHeaders
    \/ MockBody
    \/ MockProgress
    \/ MockDone
    \/ MockLoad
    \/ MockLoadend
    \/ MockEmit
    \/ \E p \in pending : DeliverPassthrough(p)
    \/ \E o \in origs : RealHeaders(o)
    \/ \E o \in origs : RealLoading(o)
    \/ \E o \in origs, t \in RealEnds, r \in RealResponses \cup {NoReal} :
            RealDone(o, t, r)
    \/ RealFails
    \/ RealLoad
    \/ PassHeaders
    \/ PassLoad
    \/ RealLoadend

SpecRequest == Init /\ [][NextRequest]_vars

\* An instance with load handlers whose sends are passed to a real client
NextLoad ==
    \/ \E a \in SpecOpenArgs : Open(a[1], a[2])
    \/ \E d \in SpecSendData : Send(d)
    \/ Abort
    \/ \E p \in pending : DeliverPassthrough(p)
    \/ \E o \in origs : RealHeaders(o)
    \/ \E o \in origs : RealLoading(o)
    \/ \E o \in origs, t \in RealEnds, r \in RealResponses \cup {NoReal} :
            RealDone(o, t, r)
    \/ RealFails
    \/ RealLoad
    \/ PassHeaders
    \/ PassLoad
    \/ RealLoadend

SpecLoad == InitLoad /\ [][NextLoad]_vars

(* ------------------------ helpers for the claims ---------------------- *)
\* An open call
Opens == \E a \in OpenArgs : Open(a[1], a[2])

\* A step taken by a task (a continuation or a real client), not by the caller
TaskStep == nOps' = nOps

\* The events a task step dispatches (a task that begins starts a new log)
Added == IF pc = "idle" THEN log' ELSE SubSeq(log', Len(log) + 1, Len(log'))

\* The events the instance fired on behalf of send id, as <<name, readyState>>
FiredBy(id) ==
    LET F[i \in 0..Len(log)] ==
            IF i = 0 THEN <<>>
            ELSE IF log[i].src = "xhr" /\ log[i].by = id
                 THEN Append(F[i - 1], <<log[i].ev, log[i].rs>>)
                 ELSE F[i - 1]
    IN  F[Len(log)]

NamesOf(fired) == [i \in 1..Len(fired) |-> fired[i][1]]

Lifecycle == {"loadstart", RSC, "progress", "load", "loadend"}

\* The task of the latest send has run to its end and the caller made no call
\* since that send
SettledUntouched ==
    /\ pc = "idle"
    /\ cur.id # 0
    /\ ~cur.touched
    /\ \/ cur.kind \in {"mock", "fail"}
       \/ cur.kind = "real" /\ cur.term # "none"

(* ------------------------------- claims ------------------------------- *)
\* C1: readyState never decreases in a step unless the step is an open call
\* or an abort call (the abort call of the resolver-failure path included).
C1_ReadyStateMonotone ==
    [][readyState' >= readyState \/ Opens \/ Abort \/ ExceptionAbort]_vars

\* C2: within a request, no caller's readystatechange handler is invoked more
\* than once for one readyState value, whether the event comes from the
\* instance or from the real client the handlers were forwarded to, and no
\* readystatechange is fired for UNSENT.
C2_OncePerReadyState ==
    /\ \A i \in 1..Len(log) :
          log[i].src = "xhr" /\ log[i].ev = RSC => log[i].rs # UNSENT
    /\ \A i, j \in 1..Len(log) :
          (/\ i < j
           /\ log[i].ev = RSC /\ log[j].ev = RSC
           /\ log[i].by # 0 /\ log[i].by = log[j].by
           /\ log[i].rs = log[j].rs)
          => \A k \in 1..Len(log[i].to), l \in 1..Len(log[j].to) :
                log[i].to[k] # log[j].to[l]

\* C3: when the continuation of a send whose resolver failed has run, the
\* instance has fired exactly error then abort for it, and readyState is
\* UNSENT.
C3_FailureIsErrorAbort ==
    (pc = "idle" /\ cur.kind = "fail")
    => /\ NamesOf(FiredBy(cur.id)) = <<"error", "abort">>
       /\ readyState = UNSENT

\* C4: a task of a send on which abort() took effect fires no loadstart,
\* readystatechange, progress, load or loadend on the instance and leaves
\* readyState alone.
C4_LateSettlementIgnored ==
    [][(TaskStep /\ cur'.id # 0 /\ cur'.aborted /\ (pc # "idle" => cur.aborted))
       => /\ readyState' = readyState
          /\ \A i \in 1..Len(Added) :
                Added[i].src = "xhr" => Added[i].ev \notin Lifecycle]_vars

\* C5: a task of a send superseded by a later open fires no event on the
\* instance and changes neither readyState, status, response nor the response
\* headers.
C5_SupersededSendIsInert ==
    [][(TaskStep /\ cur'.id # 0 /\ cur'.superseded)
       => /\ UNCHANGED <<readyState, status, response, responseHeaders>>
          /\ \A i \in 1..Len(Added) : Added[i].src # "xhr"]_vars

\* C6: once the resolver of a send made in state OPENED has settled and, on
\* the passthrough path, the real client has fired its terminal event, the
\* instance is in a terminal readyState (DONE or UNSENT).
C6_SettledIsTerminal ==
    (SettledUntouched /\ nSends = 1 /\ cur.rs0 = OPENED
        /\ pending = {} /\ origs = {})
    => readyState \in {DONE, UNSENT}

\* C7: when the mocked path has run for a mock with a non-empty body, it has
\* set LOADING, fired one progress event whose loaded and total are the byte
\* length of the body, and set DONE after LOADING.
C7_NonEmptyBodyLoads ==
    (pc = "idle" /\ cur.kind = "mock" /\ TruthyStr(cur.mock.body))
    => /\ \E i, j \in 1..Len(log) :
             /\ i < j
             /\ log[i].src = "xhr" /\ log[i].by = cur.id
             /\ log[i].ev = RSC /\ log[i].rs = LOADING
             /\ log[j].src = "xhr" /\ log[j].by = cur.id
             /\ log[j].ev = RSC /\ log[j].rs = DONE
       /\ Cardinality({i \in 1..Len(log) :
                          log[i].by = cur.id /\ log[i].ev = "progress"}) = 1
       /\ \A i \in 1..Len(log) :
             log[i].by = cur.id /\ log[i].ev = "progress"
             => /\ log[i].event.loaded = ByteLength(cur.mock.body)
                /\ log[i].event.total = ByteLength(cur.mock.body)

\* C8: the mocked path for a mock whose body is empty or absent never sets
\* LOADING and never fires progress, sets DONE, and has fired load and then
\* loadend when it ends.
C8_EmptyBodyIsDone ==
    /\ [](cur.kind = "mock" /\ ~TruthyStr(cur.mock.body)
          => /\ readyState # LOADING
             /\ \A i \in 1..Len(log) :
                   log[i].by = cur.id
                   => log[i].ev # "progress" /\ log[i].rs # LOADING
             /\ pc = "idle" =>
                   \E i, j \in 1..Len(log) :
                      /\ i < j
                      /\ log[i].by = cur.id /\ log[i].ev = "load"
                      /\ log[j].by = cur.id /\ log[j].ev = "loadend")
    /\ [][(pc = "m_body" /\ ~TruthyStr(cur.mock.body)) => pc' # "m_progress"]_vars
    /\ [][(pc = "m_done" /\ pc' = "m_load") => readyState' = DONE]_vars

C8_Witness ==
    /\ pc = "idle" /\ cur.kind = "mock"
    /\ cur.mock.body = "" /\ responseType = "blob"
    /\ readyState = DONE
    /\ NamesOf(FiredBy(cur.id)) = <<"loadstart", RSC, RSC, "load", "loadend">>

\* C9: one send made in state OPENED, with no other call of the caller since,
\* answered by a mock with a non-empty text body: open fires readystatechange for OPENED; the continuation then fires
\* loadstart (in OPENED), readystatechange for HEADERS_RECEIVED and LOADING,
\* progress, readystatechange for DONE, load and loadend (in DONE); at the end
\* readyState is DONE and status and response are the mock's.
C9_Expected ==
    << <<"loadstart", OPENED>>, <<RSC, HEADERS_RECEIVED>>, <<RSC, LOADING>>,
       <<"progress", LOADING>>, <<RSC, DONE>>, <<"load", DONE>>,
       <<"loadend", DONE>> >>

C9_FiredAt(p) ==
    CASE p = "m_headers" -> 1
      [] p = "m_body" -> 2
      [] p = "m_progress" -> 3
      [] p = "m_done" -> 4
      [] p = "m_load" -> 5
      [] p = "m_loadend" -> 6
      [] OTHER -> 7

C9_SingleTextMock ==
    /\ nSends = 1 /\ ~cur.touched
    /\ cur.id = 1 /\ cur.kind = "mock" /\ cur.rs0 = OPENED
    /\ responseType = "text" /\ TruthyStr(cur.mock.body)

C9_TextMockScenario ==
    /\ (pc = "idle" /\ nOps = 1 /\ readyState = OPENED)
       => log = <<Dispatch("xhr", 0, RSC, OPENED, 0, 0, Registered)>>
    /\ C9_SingleTextMock
       => /\ log = [i \in 1..Len(log) |->
                      Dispatch("xhr", 1, C9_Expected[i][1], C9_Expected[i][2],
                               IF C9_Expected[i][1] = "progress"
                               THEN ByteLength(cur.mock.body) ELSE 0,
                               IF C9_Expected[i][1] = "progress"
                               THEN ByteLength(cur.mock.body) ELSE 0,
                               Registered)]
          /\ Len(log) = C9_FiredAt(pc)
          /\ pc = "idle"
             => /\ readyState = DONE
                /\ status = (IF cur.mock.status = 0 THEN 200
                             ELSE cur.mock.status)
                /\ response = Str(cur.mock.body)

C9_Witness ==
    /\ C9_SingleTextMock
    /\ pc = "idle"
    /\ cur.mock.body = "hello" /\ cur.mock.status = 404
    /\ readyState = DONE /\ status = 404 /\ response = Str("hello")
    /\ events = <<[name |-> RSC, listener |-> "f"]>>
    /\ Len(log) = 7

\* C10: removeEventListener(name, listener) removes exactly the entries whose
\* name and listener both match, and keeps the others in order.
C10_Intended(evs, name, listener) ==
    LET F[i \in 0..Len(evs)] ==
            IF i = 0 THEN <<>>
            ELSE IF evs[i].name = name /\ evs[i].listener = listener
                 THEN F[i - 1]
                 ELSE Append(F[i - 1], evs[i])
    IN  F[Len(evs)]

C10_RemovesExactMatches ==
    [][\A n \in SpecEvents, l \in SpecListeners :
          RemoveEventListener(n, l) => events' = C10_Intended(events, n, l)]_vars

\* C11: every event the instance fires invokes the callback in the slot of
\* that event name first, when one is set, and then each listener registered
\* for that name once, in registration order; no other listener is invoked.
C11_Matching(evs, ev) == {i \in 1..Len(evs) : evs[i].name = ev}

C11_Nth(evs, ev, k) ==
    CHOOSE i \in C11_Matching(evs, ev) :
        Cardinality({j \in C11_Matching(evs, ev) : j < i}) = k - 1

C11_Expected(sl, evs, ev) ==
    (IF sl[ev] = Null THEN <<>> ELSE <<sl[ev]>>)
        \o [k \in 1..Cardinality(C11_Matching(evs, ev)) |->
                evs[C11_Nth(evs, ev, k)].listener]

C11_SlotThenListeners ==
    [][\A i \in 1..Len(Added) :
          Added[i].src = "xhr"
          => Added[i].to = C11_Expected(slots, events, Added[i].ev)]_vars

C11_Witness ==
    /\ events = <<[name |-> RSC, listener |-> "g"],
                  [name |-> RSC, listener |-> "f"]>>
    /\ \E i \in 1..Len(log) :
          /\ log[i].src = "xhr" /\ log[i].ev = RSC
          /\ log[i].to = <<"cb", "g", "f">>
    /\ \E i \in 1..Len(log) :
          /\ log[i].src = "xhr" /\ log[i].ev = "error"
          /\ log[i].to = <<"cb">>

\* C12: an abort() call (the caller's, or the one of the resolver-failure
\* path) made while UNSENT < readyState < DONE sets readyState to UNSENT and
\* fires exactly one event, abort, and no readystatechange; made while
\* readyState is UNSENT or DONE it fires nothing and changes no field.
C12_Fields ==
    <<status, statusText, response, responseText, responseType,
      responseHeaders, data, events, callerVars, loadVars>>

C12_AbortOnlyInFlight ==
    [][(Abort \/ ExceptionAbort)
       => /\ UNCHANGED C12_Fields
          /\ IF readyState > UNSENT /\ readyState < DONE
             THEN /\ readyState' = UNSENT
                  /\ Len(Added) = 1
                  /\ Added[1].src = "xhr" /\ Added[1].ev = "abort"
                  /\ Added[1].rs = UNSENT
             ELSE /\ readyState' = readyState
                  /\ Added = <<>>]_vars

C12_Witness ==
    /\ readyState = UNSENT /\ pc = "m_body" /\ cur.aborted
    /\ Len(log) = 3
    /\ log[2].ev = RSC /\ log[2].rs = HEADERS_RECEIVED /\ log[2].to = <<"f">>
    /\ log[3].ev = "abort" /\ log[3].by = 0 /\ log[3].rs = UNSENT

\* C13: an open call, from whatever state, leaves readyState OPENED, status
\* 200, statusText "OK", the body, response, responseText and responseXML
\* cleared, both header stores empty, and fires exactly one event, the
\* readystatechange for OPENED.
C13_OpenResets ==
    [][Opens
       => /\ readyState' = OPENED
          /\ status' = 200 /\ statusText' = "OK"
          /\ data' = ""
          /\ response' = NullValue /\ responseText' = Null
          /\ responseXML' = Null
          /\ requestHeaders' = <<>> /\ responseHeaders' = <<>>
          /\ Len(Added) = 1
          /\ Added[1].src = "xhr" /\ Added[1].ev = RSC
          /\ Added[1].rs = OPENED]_vars

C13_Witness ==
    /\ pc = "idle" /\ readyState = OPENED
    /\ \E p \in pending : p.superseded /\ p.req.headers # <<>>
    /\ status = 200 /\ response = NullValue /\ requestHeaders = <<>>
    /\ url = "/c" /\ method = "GET"
    /\ Len(log) = 1 /\ log[1].ev = RSC

\* C14: while readyState < HEADERS_RECEIVED, getAllResponseHeaders() returns
\* the empty string and getResponseHeader(x) returns null for every name x,
\* whatever the response header store holds.
C14_NoHeadersBeforeReceived ==
    readyState < HEADERS_RECEIVED
    => /\ getAllResponseHeaders(readyState, responseHeaders) = ""
       /\ \A x \in HeaderNames :
             getResponseHeader(readyState, responseHeaders, x) = Null

C14_Witness ==
    /\ readyState = UNSENT
    /\ HeadersGet(responseHeaders, "Content-Type") = "text/x-mock"
    /\ getResponseHeader(readyState, responseHeaders, "Content-Type") = Null
    /\ getAllResponseHeaders(readyState, responseHeaders) = ""

\* C15: whenever a handler of the caller runs during the task of a send
\* (made before any headers were received, and with no call of the caller
\* since) and sees readyState >= HEADERS_RECEIVED on the instance,
\* getAllResponseHeaders and getResponseHeader give the headers of that
\* send's response: the mock's, or the real client's.
C15_ResponseHeaders ==
    IF cur.kind = "mock" THEN objectToHeaders(cur.mock.headers)
    ELSE stringToHeaders(cur.real.headers)

C15_HeadersVisible ==
    (/\ inHandler /\ ~cur.touched
     /\ cur.kind \in {"mock", "real"}
     /\ cur.rs0 < HEADERS_RECEIVED
     /\ readyState >= HEADERS_RECEIVED)
    => /\ getAllResponseHeaders(readyState, responseHeaders)
             = headersToString(C15_ResponseHeaders)
       /\ \A x \in HeaderNames :
             getResponseHeader(readyState, responseHeaders, x)
                = HeadersGet(C15_ResponseHeaders, x)

\* C16: the Observer is notified only at the end of the mocked path (after
\* load and loadend) and in the real client's load, once, with the request
\* descriptor and the response of the send served; it is not notified before,
\* nor for a send whose resolver failed, nor for a real client that ends
\* without a response.
C16_FiredBefore(ev) == \E i \in 1..Len(log) : log[i].by = cur.id /\ log[i].ev = ev

C16_One(res) ==
    /\ Len(observed) = 1
    /\ observed[1].id = cur.id
    /\ observed[1].request = cur.req
    /\ observed[1].headers = res.headers
    /\ observed[1].body = res.body
    /\ ~cur.touched => /\ observed[1].status = res.status
                       /\ observed[1].statusText = res.statusText

C16_MockSnapshot ==
    [status |-> IF cur.mock.status = 0 THEN 200 ELSE cur.mock.status,
     statusText |-> IF cur.mock.statusText = "" THEN "OK"
                    ELSE cur.mock.statusText,
     headers |-> objectToHeaders(cur.mock.headers), body |-> cur.mock.body]

C16_RealSnapshot ==
    [status |-> cur.real.status, statusText |-> cur.real.statusText,
     headers |-> stringToHeaders(cur.real.headers), body |-> cur.real.body]

C16_ObserverOncePerResponse ==
    /\ [](CASE cur.kind = "mock" /\ pc = "idle" ->
                  /\ C16_One(C16_MockSnapshot)
                  /\ C16_FiredBefore("load") /\ C16_FiredBefore("loadend")
             [] cur.kind = "real" /\ cur.term = "load"
                  /\ pc \in {"p_load", "r_loadend", "idle"} ->
                  C16_One(C16_RealSnapshot)
             [] OTHER -> observed = <<>>)
    /\ [][observed' # observed /\ observed' # <<>>
            => pc \in {"m_emit", "p_headers"}]_vars

C16_Witness ==
    /\ pc = "idle" /\ cur.kind = "real" /\ cur.term = "load"
    /\ cur.real.status = 200
    /\ C16_One(C16_RealSnapshot)
    /\ observed[1].headers = << <<"x-powered-by", "real">> >>

\* C17: a send call invokes the resolver once (one more outcome is pending,
\* for the new send) and handles nothing before it returns: it fires no
\* event, notifies no Observer, starts no continuation and changes no field
\* of the instance but the request body.
C17_Sends == \E d \in SendData : Send(d)

C17_SendOnlyCallsResolver ==
    [][C17_Sends
       => /\ Cardinality(pending') = Cardinality(pending) + 1
          /\ Cardinality({p \in pending' : p.id = nSends'}) = 1
          /\ \A p \in pending' : p.id = nSends' \/ \E q \in pending : q.id = p.id
          /\ Added = <<>>
          /\ observed' = CallerObserved
          /\ pc' = pc
          /\ {o.id : o \in origs'} = {o.id : o \in origs}
          /\ UNCHANGED <<readyState, status, statusText, response,
                         responseText, responseType, responseHeaders, events,
                         callerVars, loadVars>>]_vars

C17_Witness ==
    /\ pc = "idle" /\ readyState = OPENED /\ log = <<>>
    /\ data = "payload" /\ nSends = 2
    /\ Cardinality(pending) = 2
    /\ \A p \in pending : p.req.body = "payload" <=> p.id = 2

\* C18: a resolver that returns no value makes exactly one real client, opened
\* and sent for that send; when the real client fires load, the instance's
\* status, statusText, responseURL, responseType, response, responseText and
\* responseXML are the real client's and readyState is DONE, with one
\* readystatechange if it was not DONE before and none if it was.
C18_Passes == \E p \in pending : DeliverPassthrough(p)

C18_PassthroughMirrorsLoad ==
    /\ [][C18_Passes
          => /\ Cardinality(origs') = Cardinality(origs) + 1
             /\ \A o \in origs' \ origs : o.id = cur'.id /\ o.st = "sent"
             /\ \A o \in origs : o.id # cur'.id]_vars
    /\ [][RealLoad
          => /\ status' = cur.real.status
             /\ statusText' = cur.real.statusText
             /\ responseURL' = cur.real.responseURL
             /\ responseType' = ""
             /\ response' = Str(cur.real.body)
             /\ responseText' = cur.real.body
             /\ responseXML' = cur.real.responseXML
             /\ readyState' = DONE
             /\ Added = IF readyState = DONE THEN <<>>
                        ELSE <<Dispatch("xhr", cur.id, RSC, DONE, 0, 0,
                                        Registered)>>]_vars

C18_Witness ==
    /\ pc = "p_headers" /\ cur.rs0 = DONE /\ cur.id = 2
    /\ events # <<>>
    /\ \A i \in 1..Len(log) : log[i].src = "orig"
    /\ readyState = DONE /\ status = 200 /\ responseText = "real"
    /\ responseURL = "http://host/final"

\* C19: the real client carries the caller's slots under the same names and
\* the caller's listeners in registration order, so each error, abort or
\* timeout event of a real client invokes the caller's slot for that event
\* and then the caller's listeners for it, and nothing else.
C19_Failures == {"error", "abort", "timeout"}

C19_RealFailureReachesCaller ==
    \A i \in 1..Len(log) :
        (log[i].src = "orig" /\ log[i].ev \in C19_Failures)
            => log[i].to = C11_Expected(slots, events, log[i].ev)

\* C20: the request descriptor of a send never changes once send has built
\* it: whatever the caller does afterwards, the url, method, headers and body
\* held for that send, and delivered with it to the Observer, stay those of
\* the moment send was called.
C20_Descriptors ==
    {<<p.id, p.req>> : p \in pending} \cup {<<o.id, o.req>> : o \in origs}
        \cup (IF cur.id = 0 THEN {} ELSE {<<cur.id, cur.req>>})
        \cup {<<observed[i].id, observed[i].request>> : i \in 1..Len(observed)}

C20_DescriptorImmutable ==
    [][\A d \in C20_Descriptors :
           \A e \in C20_Descriptors' : e[1] = d[1] => e[2] = d[2]]_vars

\* C21: on the mocked path a field is stored before the event that announces
\* it. When readystatechange fires for HEADERS_RECEIVED, status, statusText
\* and the response headers are the mock's (200 and OK for absent ones); when
\* readystatechange fires for LOADING or DONE, and when progress, load and
\* loadend fire, response and responseText are the coerced body, for a send
\* the caller has not acted on since it was made.
C21_Response ==
    getResponseBody(cur'.mock.body, responseType', HEADERS_RECEIVED,
                    objectToHeaders(cur'.mock.headers))

C21_Announces(e) ==
    /\ (e.ev = RSC /\ e.rs = HEADERS_RECEIVED)
          => /\ status' = IF cur'.mock.status = 0 THEN 200
                          ELSE cur'.mock.status
             /\ statusText' = IF cur'.mock.statusText = "" THEN "OK"
                              ELSE cur'.mock.statusText
             /\ responseHeaders' = objectToHeaders(cur'.mock.headers)
    /\ (/\ ~cur'.touched
        /\ \/ e.ev = RSC /\ e.rs \in {LOADING, DONE}
           \/ e.ev \in {"progress", "load", "loadend"})
          => /\ response' = C21_Response
             /\ responseText' = IF cur'.mock.body = NoValue THEN ""
                                ELSE cur'.mock.body

C21_StoredBeforeAnnounced ==
    [][(TaskStep /\ cur'.kind = "mock")
       => \A i \in 1..Len(Added) :
             (Added[i].src = "xhr" /\ Added[i].by = cur'.id)
                => C21_Announces(Added[i])]_vars

C21_Witness ==
    /\ inHandler /\ cur.kind = "mock" /\ ~cur.touched
    /\ cur.mock.status = 404 /\ cur.mock.body = "hello"
    /\ responseType = "text"
    /\ Len(log) = 5
    /\ log[2].ev = RSC /\ log[2].rs = HEADERS_RECEIVED /\ log[2].to = <<"f">>
    /\ log[4].ev = "progress"
    /\ log[5].ev = RSC /\ log[5].rs = DONE
    /\ status = 404 /\ statusText = "Not Found"
    /\ HeadersGet(responseHeaders, "content-type") = "text/x-mock"
    /\ response = Str("hello") /\ responseText = "hello"

\* C22: the listener send adds to the real client runs before the handlers
\* forwarded to it. While a caller's load callback or load listener runs for
\* a real client, and until the caller acts on the instance, readyState is
\* DONE, status, statusText, response and responseText are the real client's,
\* the response headers are the real client's parsed headers, and the
\* Observer has been notified of that response, once.
C22_LoadHandlerRuns ==
    /\ inHandler /\ cur.kind = "real" /\ ~cur.touched
    /\ log # <<>>
    /\ log[Len(log)].src = "orig" /\ log[Len(log)].ev = "load"

C22_LoadSeesResponse ==
    C22_LoadHandlerRuns
        => /\ readyState = DONE
           /\ status = cur.real.status
           /\ statusText = cur.real.statusText
           /\ response = Str(cur.real.body)
           /\ responseText = cur.real.body
           /\ responseHeaders = stringToHeaders(cur.real.headers)
           /\ Len(observed) = 1
           /\ observed[1].id = cur.id
           /\ observed[1].status = cur.real.status
           /\ observed[1].headers = stringToHeaders(cur.real.headers)

C22_Witness ==
    /\ C22_LoadHandlerRuns
    /\ log[Len(log)].to = <<"cb", "f">>
    /\ cur.rs0 = OPENED /\ cur.real.status = 200
    /\ readyState = DONE /\ responseText = "real"
    /\ HeadersGet(responseHeaders, "x-powered-by") = "real"
    /\ Len(observed) = 1

====
